---- MODULE Spec2Model ----
(***************************************************************************)
(* Model of the virtio PCI transport header (src/src/pci/header.rs) and of *)
(* the virtio block driver built on it (src/src/pci/blk.rs).               *)
(*                                                                         *)
(* Registers are memory cells shared with the device.  An 8-bit status and *)
(* the queue registers are naturals; a 32/64-bit feature bitmap is the set *)
(* of its set bit positions (subset of 0..31 / 0..63), with the casts,     *)
(* shifts and the 64-bit addition of the code computed on that form.       *)
(***************************************************************************)
EXTENDS Integers, Sequences, FiniteSets, TLC

(***************************************************************************)
(* Bounds of the model.                                                    *)
(***************************************************************************)
\* number of top-level calls (header calls, new, read_block, write_block)
MaxCalls == 3
\* blocks of the disk (block indices 0..NumBlocks-1)
NumBlocks == 2

(***************************************************************************)
(* DeviceStatusU8 (bitflags).                                              *)
(***************************************************************************)
ACKNOWLEDGE == 1
DRIVER == 2
DRIVER_OK == 4
FEATURES_OK == 8
DEVICE_NEEDS_RESET == 64
FAILED == 128

RECURSIVE BitAnd(_, _)
BitAnd(a, b) ==
    IF a = 0 \/ b = 0 THEN 0
    ELSE (a % 2) * (b % 2) + 2 * BitAnd(a \div 2, b \div 2)

RECURSIVE BitOr(_, _)
BitOr(a, b) ==
    IF a = 0 THEN b
    ELSE IF b = 0 THEN a
    ELSE (IF a % 2 = 1 \/ b % 2 = 1 THEN 1 ELSE 0) + 2 * BitOr(a \div 2, b \div 2)

\* bitflags `contains`: every bit of f is set in s
Contains(s, f) == BitAnd(s, f) = f

(***************************************************************************)
(* Integer widths.  u16 values are naturals; u32/u64 bitmaps are bit sets. *)
(***************************************************************************)
U32Bits == 0 .. 31
U64Bits == 0 .. 63

\* `x as u16`
AsU16(x) == x % 65536

\* `x as u32` on a bitmap: keep the low 32 bits
AsU32(x) == x \cap U32Bits

\* `x >> 32` on a u64 bitmap
Shr32(x) == { b - 32 : b \in { c \in x : c >= 32 } }

\* `(w as u64) << 32`
Shl32(w) == { b + 32 : b \in { c \in w : c + 32 \in U64Bits } }

\* u64 addition (wrapping at 2^64), ripple carry from bit i
RECURSIVE AddFrom(_, _, _, _)
AddFrom(a, b, i, carry) ==
    IF i > 63 THEN {}
    ELSE LET s == (IF i \in a THEN 1 ELSE 0) + (IF i \in b THEN 1 ELSE 0) + carry
         IN  (IF s % 2 = 1 THEN {i} ELSE {}) \cup AddFrom(a, b, i + 1, s \div 2)

Add64(a, b) == AddFrom(a, b, 0, 0)

(***************************************************************************)
(* The device behind the registers.                                        *)
(***************************************************************************)
\* the queue indices of the device
Queues == {0, 1}


\* Option<BAR>: None, or a memory / IO region with its base address
None == [kind |-> "None", addr |-> 0]
BarMemory(a) == [kind |-> "Memory", addr |-> a]
BarIO(a) == [kind |-> "IO", addr |-> a]

\* number of BAR slots of a PCI function
NumBars == 6

\* notification layouts: the six BAR slots, the notify capability's bar index,
\* offset and multiplier, and each queue's queue_notify_off
NotifyMem ==
    [bars |-> [i \in 0 .. (NumBars - 1) |-> IF i = 4 THEN BarMemory(4096) ELSE None],
     bar |-> 4, offset |-> 12288, mul |-> 4, qoff |-> [q \in Queues |-> q + 1]]
NotifyIO ==
    [bars |-> [i \in 0 .. (NumBars - 1) |-> IF i = 0 THEN BarIO(256) ELSE None],
     bar |-> 0, offset |-> 16, mul |-> 2, qoff |-> [q \in Queues |-> q]]
NotifyAbsentBar == [NotifyMem EXCEPT !.bar = 2]
NotifyNoSuchBar == [NotifyMem EXCEPT !.bar = NumBars]

\* the largest queue size the device advertises in queue_size
DeviceMaxQueueSize == 8

\* ring addresses (descriptor table, driver ring, device ring) a caller programs
RingAddressChoices == { <<0, 0, 0>>, <<0, 0, 8192>>, <<4096, 4352, 8192>> }

\* devices and builds: the feature bitmap offered, whether the device accepts
\* the driver's features, the notify layout, whether info! is enabled, and
\* the entry count VirtQueue::new_pci asks for
Profile(f, a, n, l, e) ==
    [device_features |-> f, accepts |-> a, notify |-> n, logging |-> l,
     queue_entries |-> e, max_queue_size |-> DeviceMaxQueueSize]

Profiles ==
    { Profile({0, 32}, TRUE, NotifyMem, TRUE, 8),
      Profile({5, 31, 63}, TRUE, NotifyIO, FALSE, 8),
      Profile({}, TRUE, NotifyMem, FALSE, 2),
      Profile({0, 32}, FALSE, NotifyMem, TRUE, 8),
      Profile({5, 31, 63}, TRUE, NotifyAbsentBar, FALSE, 8),
      Profile({0, 5}, TRUE, NotifyNoSuchBar, TRUE, 8) }

VARIABLES
    hw,         \* the device and build: features, acceptance, notify layout, ...
    regs,       \* common configuration registers (VirtIOPCICommonCfgRaw)
    log,        \* register, config and doorbell accesses of the current call
    calls,      \* number of top-level calls started
    last,       \* the last header call that returned, its input and result
    panicked,   \* a panic! or failed assertion ended the program
    ctor,       \* position inside VirtIOBlkPCI::new
    capacity,   \* VirtIOBlkPCI.capacity
    virtq,      \* VirtIOBlkPCI.queue
    dev,        \* the block device: disk, config capacity, doorbell state
    callers,    \* the callers that use the driver
    exclusive,  \* the callers hold a lock around each read_block / write_block
    thr,        \* per caller: position in read_block / write_block and locals
    shadow      \* per block, the data of the last write_block that returned Ok

vars == <<hw, regs, log, calls, last, panicked, ctor, capacity, virtq, dev,
          callers, exclusive, thr, shadow>>

(***************************************************************************)
(* Register accesses; m is [regs, log, panicked].                          *)
(***************************************************************************)
Machine(r, l, p) == [regs |-> r, log |-> l, panicked |-> p]

Access(acc, reg, at, val, old) ==
    [acc |-> acc, reg |-> reg, at |-> at, val |-> val, old |-> old]

\* what the status register holds after the driver wrote v: a device that
\* rejects the feature set does not show FEATURES_OK
StatusAfterWrite(v) ==
    IF hw.accepts \/ ~Contains(v, FEATURES_OK) THEN v ELSE v - FEATURES_OK

WriteStatus(m, v) ==
    [m EXCEPT !.regs.device_status = StatusAfterWrite(v),
              !.log = Append(@, Access("w", "device_status", 0, v, m.regs.device_status))]

ReadStatus(m) ==
    [m EXCEPT !.log = Append(@, Access("r", "device_status", 0, m.regs.device_status,
                                       m.regs.device_status))]

\* device_features shows the 32-bit window chosen by device_features_sel
DeviceFeaturesWindow(r) ==
    IF r.device_features_sel = 0 THEN AsU32(hw.device_features)
    ELSE IF r.device_features_sel = 1 THEN Shr32(hw.device_features)
    ELSE {}

WriteReg(m, reg, v) ==
    [m EXCEPT !.regs[reg] = v,
              !.log = Append(@, Access("w", reg, 0, v, m.regs[reg]))]

ReadFeatureWindow(m) ==
    [m EXCEPT !.log = Append(@, Access("r", "device_features", m.regs.device_features_sel,
                                       DeviceFeaturesWindow(m.regs),
                                       DeviceFeaturesWindow(m.regs)))]

\* a write to driver_features lands in the window chosen by driver_features_sel
WriteDriverFeatureWindow(m, w) ==
    [m EXCEPT !.regs.driver_features =
                  IF m.regs.driver_features_sel \in DOMAIN @
                  THEN [@ EXCEPT ![m.regs.driver_features_sel] = w] ELSE @,
              !.log = Append(@, Access("w", "driver_features", m.regs.driver_features_sel,
                                       w, {}))]

(***************************************************************************)
(* VirtIOPCIHeader                                                         *)
(***************************************************************************)
\* fn read_device_features(&mut self) -> u64: [m, value]
read_device_features_no_shift(m) ==
    LET m1 == WriteReg(m, "device_features_sel", 0)
        lo == DeviceFeaturesWindow(m1.regs)
        m2 == ReadFeatureWindow(m1)
        m3 == WriteReg(m2, "device_features_sel", 1)
        hi == DeviceFeaturesWindow(m3.regs)
        m4 == ReadFeatureWindow(m3)
    IN  [m |-> m4, value |-> Add64(lo, hi)]

read_device_features(m) ==
    LET m1 == WriteReg(m, "device_features_sel", 0)
        lo == DeviceFeaturesWindow(m1.regs)
        m2 == ReadFeatureWindow(m1)
        m3 == WriteReg(m2, "device_features_sel", 1)
        hi == DeviceFeaturesWindow(m3.regs)
        m4 == ReadFeatureWindow(m3)
    IN  [m |-> m4, value |-> Add64(lo, Shl32(hi))]

\* fn write_driver_features(&mut self, driver_features: u64)
write_driver_features_low_twice(m, driver_features) ==
    LET m1 == WriteReg(m, "driver_features_sel", 0)
        m2 == WriteDriverFeatureWindow(m1, AsU32(driver_features))
        m3 == WriteReg(m2, "driver_features_sel", 1)
    IN  WriteDriverFeatureWindow(m3, AsU32(driver_features))

write_driver_features(m, driver_features) ==
    LET m1 == WriteReg(m, "driver_features_sel", 0)
        m2 == WriteDriverFeatureWindow(m1, AsU32(driver_features))
        m3 == WriteReg(m2, "driver_features_sel", 1)
    IN  WriteDriverFeatureWindow(m3, AsU32(Shr32(driver_features)))

(***************************************************************************)
(* negotiate_features closures a caller may pass to begin_init.            *)
(***************************************************************************)
\* BlkFeature: the feature bits the block driver knows
BlkFeatureAll == {0, 1, 2, 4, 5, 6, 7, 9, 10, 11, 13, 14, 24, 27, 28, 29, 30,
                  32, 33, 34, 35, 36, 37, 38}

\* BlkFeature::from_bits_truncate
from_bits_truncate(bits) == bits \cap BlkFeatureAll

\* the closure of VirtIOBlkPCI::new
BlkNegotiate(features) ==
    LET f == from_bits_truncate(features)
        supported_features == {}
    IN  f \cap supported_features

Negotiators == {"blk", "all", "low", "fixed"}

Negotiate(n, features) ==
    CASE n = "blk" -> BlkNegotiate(features)
      [] n = "all" -> features
      [] n = "low" -> features \cap U32Bits
      [] n = "fixed" -> {0, 1, 63}

\* if !status.contains(FEATURES_OK) { panic!(..) }
CheckFeaturesOkNever(m, status) == m
CheckFeaturesOk(m, status) ==
    IF ~Contains(status, FEATURES_OK) THEN [m EXCEPT !.panicked = TRUE] ELSE m

\* pub fn begin_init(&mut self, negotiate_features: impl FnOnce(u64) -> u64)
begin_init(m, n) ==
    LET m1 == WriteStatus(m, ACKNOWLEDGE)
        m2 == WriteStatus(m1, DRIVER)
        rd == read_device_features(m2)
        m3 == [rd.m EXCEPT !.log = Append(@, Access("call", "negotiate", 0, rd.value, {}))]
        m4 == write_driver_features(m3, Negotiate(n, rd.value))
        m5 == WriteStatus(m4, FEATURES_OK)
        status == m5.regs.device_status
        m6 == ReadStatus(m5)
    IN  CheckFeaturesOk(m6, status)

\* pub fn finish_init(&mut self)
finish_init(m) == WriteStatus(m, DRIVER_OK)

\* the registers "about a specific virtqueue" show the queue chosen by
\* queue_sel; a selector that names no queue reads 0 and ignores writes
ReadQueueReg(m, reg) ==
    LET v == IF m.regs.queue_sel \in Queues THEN m.regs[reg][m.regs.queue_sel] ELSE 0
    IN  [m |-> [m EXCEPT !.log = Append(@, Access("r", reg, m.regs.queue_sel, v, v))],
         value |-> v]

WriteQueueReg(m, reg, v) ==
    [m EXCEPT !.regs[reg] =
                  IF m.regs.queue_sel \in Queues
                  THEN [@ EXCEPT ![m.regs.queue_sel] = v] ELSE @,
              !.log = Append(@, Access("w", reg, m.regs.queue_sel, v, 0))]

\* pub fn queue_used(&mut self, queue: u32) -> bool: [m, value]
queue_used_desc_only(m, queue) ==
    LET m1 == WriteReg(m, "queue_sel", AsU16(queue))
        d1 == ReadQueueReg(m1, "queue_desc")
    IN  [m |-> d1.m, value |-> d1.value # 0]

queue_used(m, queue) ==
    LET m1 == WriteReg(m, "queue_sel", AsU16(queue))
        d1 == ReadQueueReg(m1, "queue_desc")
        d2 == ReadQueueReg(d1.m, "queue_driver")
        d3 == ReadQueueReg(d2.m, "queue_device")
    IN  IF d1.value # 0 THEN [m |-> d1.m, value |-> TRUE]
        ELSE IF d2.value # 0 THEN [m |-> d2.m, value |-> TRUE]
        ELSE [m |-> d3.m, value |-> d3.value # 0]

\* pub fn max_queue_size(&self) -> u32: [m, value]
max_queue_size(m) == ReadQueueReg(m, "queue_size")

\* pub fn queue_set(&mut self, queue, size, desc_table_paddr, avail_paddr, used_paddr)
queue_set(m, queue, size, desc_table_paddr, avail_paddr, used_paddr) ==
    LET m1 == WriteReg(m, "queue_sel", AsU16(queue))
        m2 == WriteQueueReg(m1, "queue_size", AsU16(size))
        m3 == WriteQueueReg(m2, "queue_desc", desc_table_paddr)
        m4 == WriteQueueReg(m3, "queue_driver", avail_paddr)
    IN  WriteQueueReg(m4, "queue_device", used_paddr)

\* pub fn queue_enable(&mut self); the reads inside info! change nothing
queue_enable(m) == WriteQueueReg(m, "queue_enable", 1)

\* queue_notify_off shows the notify offset of the queue chosen by queue_sel
QueueNotifyOff(r) ==
    IF r.queue_sel \in Queues THEN hw.notify.qoff[r.queue_sel] ELSE 0

\* bar_base_addr + cap_offset + queue_notify_off * notify_off_mul
NotifyAddressNoMul(bar_base_addr, cap_offset, queue_notify_off, notify_off_mul) ==
    bar_base_addr + cap_offset + queue_notify_off

NotifyAddress(bar_base_addr, cap_offset, queue_notify_off, notify_off_mul) ==
    bar_base_addr + cap_offset + queue_notify_off * notify_off_mul

\* fn queue_notify_address(&self) -> usize: [ok, value]; ok is FALSE when
\* indexing bars or the missing BAR panics
queue_notify_address(m) ==
    LET bar_idx == hw.notify.bar
    IN  IF bar_idx \notin DOMAIN hw.notify.bars THEN [ok |-> FALSE, value |-> 0]
        ELSE IF hw.notify.bars[bar_idx].kind = "None" THEN [ok |-> FALSE, value |-> 0]
        ELSE [ok |-> TRUE,
              value |-> NotifyAddress(hw.notify.bars[bar_idx].addr, hw.notify.offset,
                                      QueueNotifyOff(m.regs), hw.notify.mul)]

\* pub fn notify(&mut self, queue_idx: u16)
notify(m, queue_idx) ==
    LET a == queue_notify_address(m)
    IN  IF ~a.ok THEN [m EXCEPT !.panicked = TRUE]
        ELSE [m EXCEPT !.log = Append(@, Access("w", "doorbell", a.value, queue_idx, 0))]

\* device ids of the transitional range, with the ids the match does not list
DeviceIds == {4095, 4096, 4097, 4098, 4099, 4100, 4101, 4102, 4105, 4106, 39321}

KnownDeviceTypes ==
    {"Network", "Block", "MemoryBallooning", "Console", "ScsiHost", "EntropySource", "_9P"}

\* match self.device_id { 0x1000 => Network, .., _ => panic!("Unknown device") }
device_type_defaults(m, device_id) ==
    [m |-> m, type |-> "Network"]

device_type(m, device_id) ==
    IF device_id = 4096 THEN [m |-> m, type |-> "Network"]
    ELSE IF device_id = 4097 THEN [m |-> m, type |-> "Block"]
    ELSE IF device_id = 4098 THEN [m |-> m, type |-> "MemoryBallooning"]
    ELSE IF device_id = 4099 THEN [m |-> m, type |-> "Console"]
    ELSE IF device_id = 4100 THEN [m |-> m, type |-> "ScsiHost"]
    ELSE IF device_id = 4101 THEN [m |-> m, type |-> "EntropySource"]
    ELSE IF device_id = 4105 THEN [m |-> m, type |-> "_9P"]
    ELSE [m |-> [m EXCEPT !.panicked = TRUE], type |-> "panic"]

(***************************************************************************)
(* The Queue collaborator (crate::queue::VirtQueue): a ring of `size`      *)
(* descriptors, the requests made available to the device and the ones the *)
(* device has used.                                                        *)
(***************************************************************************)
NoReq == [type |-> "None", reserved |-> 0, sector |-> 0, owner |-> 0, call |-> 0,
          data |-> << >>, ndesc |-> 0]

NoQueue == [size |-> 0, free |-> 0, avail |-> << >>, used |-> << >>]

\* ring addresses VirtQueue::new_pci programs for its DMA pages
DmaRing == <<16384, 16640, 20480>>

\* VirtQueue::new_pci(&mut header, idx): [m, ok, queue]
new_pci(m, idx, size) ==
    LET u == queue_used(m, idx)
        s == max_queue_size(u.m)
        m1 == queue_set(s.m, idx, size, DmaRing[1], DmaRing[2], DmaRing[3])
    IN  IF u.value THEN [m |-> u.m, ok |-> FALSE, queue |-> NoQueue]
        ELSE IF s.value < size THEN [m |-> s.m, ok |-> FALSE, queue |-> NoQueue]
        ELSE [m |-> queue_enable(m1), ok |-> TRUE,
              queue |-> [size |-> size, free |-> size, avail |-> << >>, used |-> << >>]]

\* VirtQueue::add(outputs, inputs): one descriptor per buffer; [ok, queue]
QueueAdd(q, req, ndesc) ==
    IF ndesc > q.free THEN [ok |-> FALSE, queue |-> q]
    ELSE [ok |-> TRUE,
          queue |-> [q EXCEPT !.free = @ - ndesc, !.avail = Append(@, req)]]

\* VirtQueue::can_pop()
can_pop(q) == q.used # << >>

\* VirtQueue::pop_used(): [ok, queue, req]
pop_used(q) ==
    IF q.used = << >> THEN [ok |-> FALSE, queue |-> q, req |-> NoReq]
    ELSE [ok |-> TRUE,
          queue |-> [q EXCEPT !.free = @ + Head(q.used).ndesc, !.used = Tail(@)],
          req |-> Head(q.used)]

(***************************************************************************)
(* Block requests and responses (crate::blk).                              *)
(***************************************************************************)
\* bytes of one block (512 in the crate; scaled)
BLK_SIZE == 2

\* RespStatus
RespOk == 0
RespIoErr == 1
RespUnsupported == 2

\* BlkResp::default(): the zeroed response
BlkRespDefault == 0

\* BlkReq::new(type_, reserved, sector)
BlkReqNew(type, reserved, sector) ==
    [type |-> type, reserved |-> reserved, sector |-> sector]

\* the request of read_block
ReadReqBlock0(block_id) == BlkReqNew("In", 0, 0)
ReadReq(block_id) == BlkReqNew("In", 0, block_id)

\* the request of write_block
WriteReq(block_id) == BlkReqNew("Out", 0, block_id)

\* assert_eq!(buf.len(), BLK_SIZE)
LengthAtLeast(buf) == Len(buf) >= BLK_SIZE
LengthOk(buf) == Len(buf) = BLK_SIZE

\* the `?` after queue.add / pop_used / new_pci: goes on only on Ok
TryIgnoresErr(r) == TRUE
Try(r) == r.ok

\* the condition that ends `while !self.queue.can_pop() { spin_loop(); }`
PollDoneAlways(q) == TRUE
PollDoneNever(q) == FALSE
PollDone(q) == can_pop(q)

\* match resp.status() { RespStatus::Ok => Ok(()), _ => Err(Error::IoError) }
BlockResultNotIoErr(status) == IF status # RespIoErr THEN "Ok" ELSE "IoError"
BlockResult(status) == IF status = RespOk THEN "Ok" ELSE "IoError"

(***************************************************************************)
(* The block device behind virtq 0.                                        *)
(***************************************************************************)
Blocks == 0 .. (NumBlocks - 1)

Bytes == 0 .. 1
Fill(n, v) == [i \in 1 .. n |-> v]

\* the address at which the device takes notifications of virtq q
DeviceDoorbell(q) ==
    hw.notify.bars[hw.notify.bar].addr + hw.notify.offset
        + hw.notify.qoff[q] * hw.notify.mul

\* the device writes one block of data into a buffer the driver gave it
CopyInto(buf, data) ==
    [i \in 1 .. Len(buf) |-> IF i <= Len(data) THEN data[i] ELSE buf[i]]

\* the device stores the data of an Out request as one block
AsBlock(data, old) ==
    [i \in 1 .. BLK_SIZE |-> IF i <= Len(data) THEN data[i] ELSE old[i]]

(***************************************************************************)
(* The program: a caller that owns the header and calls its methods, or    *)
(* hands it to VirtIOBlkPCI::new and then reads and writes blocks.         *)
(***************************************************************************)
CallerIds == {1, 2}

\* buffers a caller passes: a block, one byte short, one byte long
CallerBuffers ==
    { Fill(n, v) : n \in {BLK_SIZE - 1, BLK_SIZE, BLK_SIZE + 1}, v \in Bytes }

InitRegs ==
    [device_features_sel |-> 0,
     driver_features_sel |-> 0,
     driver_features |-> [s \in 0 .. 1 |-> {}],
     device_status |-> 0,
     queue_sel |-> 0,
     queue_size |-> [q \in Queues |-> hw.max_queue_size],
     queue_enable |-> [q \in Queues |-> 0],
     queue_desc |-> [q \in Queues |-> 0],
     queue_driver |-> [q \in Queues |-> 0],
     queue_device |-> [q \in Queues |-> 0]]

\* a call on the header: the method, its queue index or device id, the
\* negotiate closure, and what it returned (a flag, a device type)
Call(op, arg) ==
    [op |-> op, arg |-> arg, neg |-> "none", rings |-> <<0, 0, 0>>,
     result |-> FALSE, type |-> "none"]

\* the call with the registers it found
Called(call, before) ==
    [op |-> call.op, arg |-> call.arg, neg |-> call.neg, rings |-> call.rings,
     result |-> call.result, type |-> call.type, before |-> before]

IdleThread ==
    [pc |-> "idle", type |-> "None", block |-> 0, buf0 |-> << >>, buf |-> << >>,
     resp |-> BlkRespDefault, steps |-> << >>, result |-> "None",
     rejected |-> FALSE, queue0 |-> NoQueue, popped |-> 0, call |-> 0,
     written |-> FALSE]

Init ==
    /\ hw \in Profiles
    /\ regs = InitRegs
    /\ log = << >>
    /\ calls = 0
    /\ last = Called(Call("none", 0), regs)
    /\ panicked = FALSE
    /\ ctor = "none"
    /\ capacity = 0
    /\ virtq = NoQueue
    /\ dev = [disk |-> [b \in Blocks |-> Fill(BLK_SIZE, 0)], capacity |-> NumBlocks,
              kicked |-> FALSE, faulted |-> FALSE]
    /\ callers = {1}
    /\ exclusive = TRUE
    /\ thr = [c \in CallerIds |-> IdleThread]
    /\ shadow = [b \in Blocks |-> Fill(BLK_SIZE, 0)]

blkVars == <<ctor, capacity, virtq, dev, callers, exclusive, thr, shadow>>

\* the caller still owns the header and the program runs
CanCall == ~panicked /\ calls < MaxCalls /\ ctor = "none"

Returned(m, call) ==
    /\ regs' = m.regs
    /\ log' = m.log
    /\ panicked' = m.panicked
    /\ calls' = calls + 1
    /\ last' = Called(call, regs)
    /\ UNCHANGED <<hw, blkVars>>

BeginInit ==
    /\ CanCall
    /\ \E n \in Negotiators :
          Returned(begin_init(Machine(regs, << >>, FALSE), n), [Call("begin_init", 0) EXCEPT !.neg = n])

FinishInit ==
    /\ CanCall
    /\ Returned(finish_init(Machine(regs, << >>, FALSE)), Call("finish_init", 0))

QueueUsed ==
    /\ CanCall
    /\ \E q \in Queues :
          LET r == queue_used(Machine(regs, << >>, FALSE), q)
          IN  Returned(r.m, [Call("queue_used", q) EXCEPT !.result = r.value])

QueueSet ==
    /\ CanCall
    /\ \E q \in Queues, a \in RingAddressChoices :
          Returned(queue_set(Machine(regs, << >>, FALSE), q, hw.max_queue_size,
                             a[1], a[2], a[3]),
                   [Call("queue_set", q) EXCEPT !.rings = a])

QueueEnable ==
    /\ CanCall
    /\ Returned(queue_enable(Machine(regs, << >>, FALSE)), Call("queue_enable", 0))

Notify ==
    /\ CanCall
    /\ \E q \in Queues :
          Returned(notify(Machine(regs, << >>, FALSE), q), Call("notify", q))

\* device_type() of a header whose device_id field holds id
DeviceTypeCall ==
    /\ CanCall
    /\ \E id \in DeviceIds :
          LET r == device_type(Machine(regs, << >>, FALSE), id)
          IN  Returned(r.m, [Call("device_type", id) EXCEPT !.type = r.type])

(***************************************************************************)
(* VirtIOBlkPCI::new(header), in three steps between which the device may  *)
(* act: begin_init and the info! lines; new_pci and finish_init; the read  *)
(* of config.capacity for the returned driver.                             *)
(***************************************************************************)
ReadCapacity(m) ==
    [m EXCEPT !.log = Append(@, Access("r", "capacity", 0, dev.capacity, dev.capacity))]

\* let queue = VirtQueue::new_pci(&mut header, 0)?; header.finish_init();
finish_then_new_queue(m, size) ==
    LET r == new_pci(finish_init(m), 0, size)
    IN  [m |-> r.m, queue |-> r.queue, ok |-> r.ok]

new_queue_then_finish(m, size) ==
    LET r == new_pci(m, 0, size)
    IN  [m |-> IF Try(r) THEN finish_init(r.m) ELSE r.m, queue |-> r.queue, ok |-> r.ok]

\* capacity: config.capacity.read() as usize, the read being the last access
capacity_halved(m) == m.log[Len(m.log)].val \div 2

capacity_field(m) == m.log[Len(m.log)].val

NewBeginInit ==
    /\ CanCall
    /\ LET m == begin_init(Machine(regs, << >>, FALSE), "blk")
           m1 == IF ~m.panicked /\ hw.logging THEN ReadCapacity(m) ELSE m
       IN  /\ regs' = m1.regs
           /\ log' = m1.log
           /\ panicked' = m1.panicked
    /\ calls' = calls + 1
    /\ last' = Called(Call("new", 0), regs)
    /\ ctor' = "begun"
    /\ UNCHANGED <<hw, capacity, virtq, dev, callers, exclusive, thr, shadow>>

NewQueue ==
    /\ ~panicked
    /\ ctor = "begun"
    /\ LET r == new_queue_then_finish(Machine(regs, log, FALSE), hw.queue_entries)
       IN  /\ regs' = r.m.regs
           /\ log' = r.m.log
           /\ virtq' = r.queue
           /\ ctor' = IF Try(r) THEN "bound" ELSE "err"
    /\ UNCHANGED <<hw, calls, last, panicked, capacity, dev, callers, exclusive, thr, shadow>>

NewReturn ==
    /\ ~panicked
    /\ ctor = "bound"
    /\ LET m == ReadCapacity(Machine(regs, log, FALSE))
       IN  /\ capacity' = capacity_field(m)
           /\ log' = m.log
    /\ ctor' = "ready"
    /\ UNCHANGED <<hw, regs, calls, last, panicked, virtq, dev, callers, exclusive, thr, shadow>>

(***************************************************************************)
(* read_block / write_block of caller c, one step per call into the Queue  *)
(* or the header.                                                          *)
(***************************************************************************)
CanStartUnlocked(c) ==
    /\ ~panicked
    /\ calls < MaxCalls
    /\ ctor = "ready"
    /\ c \in callers
    /\ thr[c].pc = "idle"

CanStart(c) ==
    /\ ~panicked
    /\ calls < MaxCalls
    /\ ctor = "ready"
    /\ c \in callers
    /\ thr[c].pc = "idle"
    /\ exclusive => \A d \in CallerIds : thr[d].pc = "idle"

\* entry, assert_eq! and self.queue.add(..)?
Submit(c, type, block_id, req, buf) ==
    LET entry == [type |-> req.type, reserved |-> req.reserved, sector |-> req.sector,
                  owner |-> c, call |-> calls + 1,
                  data |-> IF type = "Out" THEN buf ELSE << >>, ndesc |-> 3]
        r == QueueAdd(virtq, entry, 3)
        t == [IdleThread EXCEPT !.type = type, !.block = block_id, !.buf0 = buf,
                                !.buf = buf, !.queue0 = virtq, !.call = calls + 1]
    IN  /\ calls' = calls + 1
        /\ log' = << >>
        /\ IF ~LengthOk(buf)
           THEN /\ panicked' = TRUE
                /\ thr' = [thr EXCEPT ![c] = [t EXCEPT !.pc = "panicked"]]
                /\ UNCHANGED virtq
           ELSE /\ panicked' = FALSE
                /\ virtq' = r.queue
                /\ thr' = [thr EXCEPT ![c] =
                             [t EXCEPT !.steps = <<"add">>,
                                       !.rejected = ~r.ok,
                                       !.pc = IF Try(r) THEN "notify" ELSE "idle",
                                       !.result = IF Try(r) THEN "None" ELSE "QueueErr"]]
        /\ UNCHANGED <<hw, regs, last, ctor, capacity, dev, callers, exclusive, shadow>>

ReadBlockAdd(c) ==
    /\ CanStart(c)
    /\ \E block_id \in Blocks, buf \in CallerBuffers :
          Submit(c, "In", block_id, ReadReq(block_id), buf)

WriteBlockAdd(c) ==
    /\ CanStart(c)
    /\ \E block_id \in Blocks, buf \in CallerBuffers :
          Submit(c, "Out", block_id, WriteReq(block_id), buf)

\* the calls of the two-caller runs: block 0 and one buffer of BLK_SIZE bytes
ReadBlockZero(c) ==
    /\ CanStart(c)
    /\ Submit(c, "In", 0, ReadReq(0), Fill(BLK_SIZE, 1))

WriteBlockZero(c) ==
    /\ CanStart(c)
    /\ Submit(c, "Out", 0, WriteReq(0), Fill(BLK_SIZE, 1))

\* self.header.notify(0)
BlockNotify(c) ==
    /\ ~panicked
    /\ thr[c].pc = "notify"
    /\ LET m == notify(Machine(regs, log, FALSE), 0)
           rang == /\ ~m.panicked
                   /\ m.log[Len(m.log)].at = DeviceDoorbell(0)
                   /\ m.log[Len(m.log)].val = 0
       IN  /\ log' = m.log
           /\ panicked' = m.panicked
           /\ dev' = [dev EXCEPT !.kicked = @ \/ rang]
           /\ thr' = [thr EXCEPT ![c].pc = IF m.panicked THEN "panicked" ELSE "poll",
                                 ![c].steps = Append(@, "notify")]
    /\ UNCHANGED <<hw, regs, calls, last, ctor, capacity, virtq, callers, exclusive, shadow>>

\* while !self.queue.can_pop() { spin_loop(); }
BlockPoll(c) ==
    /\ ~panicked
    /\ thr[c].pc = "poll"
    /\ PollDone(virtq)
    /\ thr' = [thr EXCEPT ![c].pc = "pop", ![c].steps = Append(@, "can_pop")]
    /\ UNCHANGED <<hw, regs, log, calls, last, panicked, ctor, capacity, virtq, dev,
                   callers, exclusive, shadow>>

\* self.queue.pop_used()?
BlockPop(c) ==
    /\ ~panicked
    /\ thr[c].pc = "pop"
    /\ LET r == pop_used(virtq)
       IN  /\ virtq' = r.queue
           /\ thr' = [thr EXCEPT ![c].pc = IF Try(r) THEN "inspect" ELSE "idle",
                                 ![c].result = IF Try(r) THEN "None" ELSE "NotReady",
                                 ![c].popped = r.req.call,
                                 ![c].steps = Append(@, "pop_used")]
    /\ UNCHANGED <<hw, regs, log, calls, last, panicked, ctor, capacity, dev, callers, exclusive,
                   shadow>>

\* match resp.status() { .. }
BlockReturn(c) ==
    /\ ~panicked
    /\ thr[c].pc = "inspect"
    /\ LET result == BlockResult(thr[c].resp)
       IN  /\ thr' = [thr EXCEPT ![c].pc = "idle", ![c].result = result,
                                 ![c].steps = Append(@, "status")]
           /\ shadow' = IF thr[c].type = "Out" /\ result = "Ok"
                        THEN [shadow EXCEPT ![thr[c].block] = thr[c].buf0]
                        ELSE shadow
    /\ UNCHANGED <<hw, regs, log, calls, last, panicked, ctor, capacity, virtq, dev,
                   callers, exclusive>>

(***************************************************************************)
(* The device.                                                             *)
(***************************************************************************)
Completed(status) ==
    LET req == Head(virtq.avail)
    IN  /\ virtq' = [virtq EXCEPT !.avail = Tail(@), !.used = Append(@, req)]
        /\ UNCHANGED <<hw, regs, log, calls, last, panicked, ctor, capacity, callers, exclusive,
                       shadow>>

\* the device serves the next available request and reports Ok
DeviceServe ==
    /\ dev.kicked
    /\ virtq.avail # << >>
    /\ LET req == Head(virtq.avail)
       IN  /\ req.sector \in Blocks
           /\ dev' = [dev EXCEPT !.kicked = Tail(virtq.avail) # << >>,
                                 !.disk = IF req.type = "Out"
                                          THEN [@ EXCEPT ![req.sector] =
                                                    AsBlock(req.data, @)]
                                          ELSE @]
           /\ thr' = [thr EXCEPT ![req.owner].resp = RespOk,
                                 ![req.owner].written = TRUE,
                                 ![req.owner].buf =
                                     IF req.type = "In"
                                     THEN CopyInto(@, dev.disk[req.sector]) ELSE @]
    /\ Completed(RespOk)

\* the device fails the next available request
DeviceFail ==
    /\ dev.kicked
    /\ virtq.avail # << >>
    /\ \E status \in {RespIoErr, RespUnsupported} :
          /\ dev' = [dev EXCEPT !.kicked = Tail(virtq.avail) # << >>, !.faulted = TRUE]
          /\ thr' = [thr EXCEPT ![Head(virtq.avail).owner].resp = status,
                                ![Head(virtq.avail).owner].written = TRUE]
          /\ Completed(status)

\* the device marks the next available request used without writing its
\* data or its status byte
DeviceSilent ==
    /\ dev.kicked
    /\ virtq.avail # << >>
    /\ dev' = [dev EXCEPT !.kicked = Tail(virtq.avail) # << >>, !.faulted = TRUE]
    /\ UNCHANGED thr
    /\ Completed(BlkRespDefault)

\* the device changes the capacity field of its configuration block
DeviceResize ==
    /\ ~panicked
    /\ ctor \in {"begun", "bound", "ready"}
    /\ dev.capacity = NumBlocks
    /\ dev' = [dev EXCEPT !.capacity = NumBlocks + 1]
    /\ UNCHANGED <<hw, regs, log, calls, last, panicked, ctor, capacity, virtq,
                   callers, exclusive, thr, shadow>>

Next ==
    \/ BeginInit
    \/ FinishInit
    \/ QueueUsed
    \/ QueueSet
    \/ QueueEnable
    \/ Notify
    \/ DeviceTypeCall
    \/ NewBeginInit
    \/ NewQueue
    \/ NewReturn
    \/ \E c \in CallerIds : ReadBlockAdd(c)
    \/ \E c \in CallerIds : WriteBlockAdd(c)
    \/ \E c \in CallerIds : BlockNotify(c)
    \/ \E c \in CallerIds : BlockPoll(c)
    \/ \E c \in CallerIds : BlockPop(c)
    \/ \E c \in CallerIds : BlockReturn(c)
    \/ DeviceServe
    \/ DeviceFail
    \/ DeviceSilent
    \/ DeviceResize

Spec == Init /\ [][Next]_vars

\* the device completes every request it was notified of, and a running
\* caller takes its next step
DeviceCompletes == DeviceServe \/ DeviceFail \/ DeviceSilent

SpecFair ==
    /\ Spec
    /\ WF_vars(DeviceCompletes)
    /\ \A c \in CallerIds :
          /\ WF_vars(BlockPoll(c))
          /\ WF_vars(BlockPop(c))
          /\ WF_vars(BlockReturn(c))

\* two callers share the driver, with or without a lock around each call
InitConc ==
    /\ hw \in Profiles
    /\ regs = InitRegs
    /\ log = << >>
    /\ calls = 0
    /\ last = Called(Call("none", 0), regs)
    /\ panicked = FALSE
    /\ ctor = "none"
    /\ capacity = 0
    /\ virtq = NoQueue
    /\ dev = [disk |-> [b \in Blocks |-> Fill(BLK_SIZE, 0)], capacity |-> NumBlocks,
              kicked |-> FALSE, faulted |-> FALSE]
    /\ callers = CallerIds
    /\ exclusive \in BOOLEAN
    /\ thr = [c \in CallerIds |-> IdleThread]
    /\ shadow = [b \in Blocks |-> Fill(BLK_SIZE, 0)]

\* the constructor, then the block operations of both callers and the device
NextConc ==
    \/ NewBeginInit
    \/ NewQueue
    \/ NewReturn
    \/ \E c \in CallerIds : ReadBlockZero(c)
    \/ \E c \in CallerIds : WriteBlockZero(c)
    \/ \E c \in CallerIds : BlockNotify(c)
    \/ \E c \in CallerIds : BlockPoll(c)
    \/ \E c \in CallerIds : BlockPop(c)
    \/ \E c \in CallerIds : BlockReturn(c)
    \/ DeviceServe
    \/ DeviceFail
    \/ DeviceSilent

SpecConc == InitConc /\ [][NextConc]_vars

(***************************************************************************)
(* Properties.                                                             *)
(***************************************************************************)
IsStatusWrite(e) == e.acc = "w" /\ e.reg = "device_status"
IsStatusRead(e) == e.acc = "r" /\ e.reg = "device_status"

\* the accesses of begin_init that the handshake orders, as <<access, register>>
HandshakeRegs == {"device_status", "device_features", "negotiate", "driver_features"}
Handshake ==
    LET es == SelectSeq(log, LAMBDA e : e.reg \in HandshakeRegs)
    IN  [i \in 1 .. Len(es) |-> <<es[i].acc, es[i].reg>>]

StatusWritten ==
    LET es == SelectSeq(log, IsStatusWrite)
    IN  [i \in 1 .. Len(es) |-> es[i].val]

\* C1: every write to the device status register, other than the reset to
\* zero, holds a superset of the bits the register held just before it.
C1_StatusOnlyGainsBits ==
    \A i \in DOMAIN log :
        IsStatusWrite(log[i]) =>
            \/ log[i].val = 0
            \/ Contains(log[i].val, log[i].old)

\* C2: begin_init writes status 0, then ACKNOWLEDGE added, then DRIVER added,
\* reads the device features, calls negotiate, writes the driver features,
\* writes status with FEATURES_OK added and reads status back, in this order.
C2_BeginInitOrder ==
    last.op = "begin_init" =>
        /\ Handshake = << <<"w", "device_status">>, <<"w", "device_status">>,
                          <<"w", "device_status">>, <<"r", "device_features">>,
                          <<"r", "device_features">>, <<"call", "negotiate">>,
                          <<"w", "driver_features">>, <<"w", "driver_features">>,
                          <<"w", "device_status">>, <<"r", "device_status">> >>
        /\ StatusWritten = <<0, ACKNOWLEDGE, ACKNOWLEDGE + DRIVER,
                             ACKNOWLEDGE + DRIVER + FEATURES_OK>>

\* C3: finish_init leaves status = (status before) OR DRIVER_OK; after the
\* begin_init and finish_init of the block driver's construct the status holds
\* ACKNOWLEDGE, DRIVER, FEATURES_OK and DRIVER_OK.
C3_FinishInitOrsDriverOk ==
    /\ last.op = "finish_init" =>
          regs.device_status = BitOr(last.before.device_status, DRIVER_OK)
    /\ ctor \in {"bound", "ready"} =>
          Contains(regs.device_status, ACKNOWLEDGE + DRIVER + FEATURES_OK + DRIVER_OK)

\* C4: once the status read back at the end of begin_init lacks FEATURES_OK the
\* program has failed fatally and that read is its last access: no queue
\* register is programmed, DRIVER_OK is not written, no driver is returned.
C4_RejectionIsFatal ==
    \A i \in DOMAIN log :
        (IsStatusRead(log[i]) /\ ~Contains(log[i].val, FEATURES_OK)) =>
            /\ panicked
            /\ i = Len(log)
            /\ ctor \in {"none", "begun"}
            /\ virtq = NoQueue
            /\ capacity = 0
            /\ ~Contains(regs.device_status, DRIVER_OK)
            /\ \A q \in Queues : regs.queue_enable[q] = last.before.queue_enable[q]

C4_Witness ==
    /\ panicked
    /\ ctor = "begun"
    /\ ~hw.accepts
    /\ log # << >>
    /\ IsStatusRead(log[Len(log)])
    /\ ~Contains(log[Len(log)].val, FEATURES_OK)

\* a 64-bit bitmap from its two 32-bit windows, as the accesses e of the log
\* that satisfy Test moved them (e.at is the selector)
Windows(Test(_)) ==
    LET es == SelectSeq(log, Test)
    IN  UNION { IF es[i].at = 0 THEN es[i].val ELSE { b + 32 : b \in es[i].val } :
                i \in 1 .. Len(es) }

IsFeatureRead(e) == e.acc = "r" /\ e.reg = "device_features"
IsFeatureWrite(e) == e.acc = "w" /\ e.reg = "driver_features"

FeaturesRead == Windows(IsFeatureRead)
FeaturesWritten == Windows(IsFeatureWrite)
HasNegotiated == \E i \in DOMAIN log : log[i].reg = "negotiate"

\* the closure the running begin_init was given
Negotiator == IF last.op = "begin_init" THEN last.neg ELSE "blk"

\* C5 (as claimed): the driver features written are a subset of the device
\* features read, for every negotiate function.
C5_WrittenIsSubset == HasNegotiated => FeaturesWritten \subseteq FeaturesRead

\* C5 (amended): the driver features written are exactly what negotiate
\* returned for the device features read; they are a subset of those features
\* whenever negotiate returns a subset, and empty for the block driver's own
\* negotiate function.
C5_WrittenIsNegotiated ==
    HasNegotiated =>
        /\ FeaturesWritten = Negotiate(Negotiator, FeaturesRead)
        /\ Negotiate(Negotiator, FeaturesRead) \subseteq FeaturesRead
              => FeaturesWritten \subseteq FeaturesRead
        /\ Negotiator = "blk" => FeaturesWritten = {}

C5_Witness ==
    /\ HasNegotiated
    /\ last.op = "begin_init"
    /\ last.neg = "all"
    /\ 63 \in FeaturesWritten
\* the notification capability names a BAR that exists
BarPresent ==
    /\ hw.notify.bar \in DOMAIN hw.notify.bars
    /\ hw.notify.bars[hw.notify.bar].kind # "None"

\* B + C + Q*M for the queue notify offset Q shown under the registers r
Doorbell(r) ==
    hw.notify.bars[hw.notify.bar].addr + hw.notify.offset
        + (IF r.queue_sel \in Queues THEN hw.notify.qoff[r.queue_sel] ELSE 0)
              * hw.notify.mul

\* C6: notify(queue_index) makes exactly one write, of queue_index, to the
\* address B + C + Q*M and changes no register; when the BAR named by the
\* notification capability is absent it fails fatally and writes nothing.
C6_NotifyWritesDoorbell ==
    /\ last.op = "notify" =>
          /\ regs = last.before
          /\ IF BarPresent
             THEN /\ ~panicked
                  /\ log = << Access("w", "doorbell", Doorbell(last.before), last.arg, 0) >>
             ELSE panicked /\ log = << >>
    /\ \A c \in CallerIds :
          thr[c].pc = "poll" =>
              /\ BarPresent
              /\ log = << Access("w", "doorbell", Doorbell(regs), 0, 0) >>

C6_Witness ==
    /\ last.op = "notify"
    /\ ~panicked
    /\ last.arg = 0
    /\ last.before.queue_sel = 1
    /\ log # << >>
    /\ log[1].at = 4096 + 12288 + 2 * 4

IsPrefix(s, t) == Len(s) <= Len(t) /\ \A i \in 1 .. Len(s) : s[i] = t[i]

BlockSteps == <<"add", "notify", "can_pop", "pop_used", "status">>

\* the call of caller c ran through to the inspection of the response
Inspected(c) == thr[c].pc = "idle" /\ thr[c].steps = BlockSteps

\* C7: read_block and write_block run submit, notify(0), poll, retrieve and
\* inspect in this order; the poll is left only with a completion available,
\* and the call returns Ok exactly when the response status is Ok and IoError
\* for every other status.
C7_BlockStepOrder ==
    \A c \in CallerIds :
        /\ IsPrefix(thr[c].steps, BlockSteps)
        /\ thr[c].pc = "pop" => can_pop(virtq)
        /\ thr[c].pc = "poll" => log[Len(log)].reg = "doorbell" /\ log[Len(log)].val = 0
        /\ thr[c].pc = "inspect" => thr[c].popped # 0 /\ thr[c].result = "None"
        /\ Inspected(c) =>
              /\ thr[c].result \in {"Ok", "IoError"}
              /\ thr[c].result = "Ok" <=> thr[c].resp = RespOk

C7_Witness ==
    \E c \in CallerIds :
        /\ Inspected(c)
        /\ thr[c].type = "In"
        /\ thr[c].resp = RespUnsupported
        /\ thr[c].result = "IoError"

\* C8: with a device that serves every request, a call that ran to the
\* inspection of the response returns Ok, and a read_block of block b leaves
\* in the buffer the data of the last write_block to b that returned Ok (the
\* initial content when there was none), whatever was written to other blocks.
C8_WriteReadRoundTrip ==
    \A c \in CallerIds :
        (Inspected(c) /\ ~dev.faulted) =>
            /\ thr[c].result = "Ok"
            /\ thr[c].type = "In" => thr[c].buf = shadow[thr[c].block]
            /\ thr[c].type = "Out" => thr[c].buf = thr[c].buf0

C8_Witness ==
    \E c \in CallerIds :
        /\ Inspected(c)
        /\ ~dev.faulted
        /\ thr[c].type = "In"
        /\ thr[c].block = 1
        /\ thr[c].buf0 = Fill(BLK_SIZE, 0)
        /\ thr[c].buf = Fill(BLK_SIZE, 1)
        /\ shadow[0] = Fill(BLK_SIZE, 0)

\* C9: a read_block or write_block given a buffer whose length is not the
\* block size fails by assertion before any effect: nothing is submitted,
\* the doorbell is not written and the buffer is as the caller passed it.
C9_WrongLengthAsserts ==
    \A c \in CallerIds :
        (thr[c].type # "None" /\ Len(thr[c].buf0) # BLK_SIZE) =>
            /\ panicked
            /\ thr[c].pc = "panicked"
            /\ thr[c].steps = << >>
            /\ thr[c].result = "None"
            /\ virtq = thr[c].queue0
            /\ log = << >>
            /\ ~dev.kicked
            /\ thr[c].buf = thr[c].buf0

C9_Witness ==
    \E c \in CallerIds :
        /\ thr[c].pc = "panicked"
        /\ thr[c].type = "Out"
        /\ Len(thr[c].buf0) = BLK_SIZE + 1

\* C10: when the Queue rejects the submission, read_block / write_block return
\* that failure at once: the doorbell is not written, no poll and no retry is
\* made, and the Queue is as it was before the call.
C10_RejectedSubmitReturns ==
    \A c \in CallerIds :
        thr[c].rejected =>
            /\ thr[c].pc = "idle"
            /\ thr[c].result = "QueueErr"
            /\ thr[c].steps = <<"add">>
            /\ virtq = thr[c].queue0
            /\ log = << >>
            /\ thr[c].buf = thr[c].buf0

C10_Witness ==
    \E c \in CallerIds :
        /\ thr[c].rejected
        /\ thr[c].type = "In"
        /\ thr[c].result = "QueueErr"
        /\ virtq.free < 3

(***************************************************************************)
(* VirtIOBlkPCI::new                                                       *)
(***************************************************************************)
IsDriverOkWrite(e) == IsStatusWrite(e) /\ Contains(e.val, DRIVER_OK)
IsQueueWrite(e, reg) == e.acc = "w" /\ e.reg = reg /\ e.at = 0

\* the log holds the accesses of the constructor
InNew == last.op = "new" /\ ctor \in {"begun", "bound", "err"}

\* C11: new runs begin_init, then binds and configures queue 0, then
\* finish_init: every write of DRIVER_OK follows the negotiation, the
\* programming of queue 0 and its enabling; when the binding fails new ends
\* with that failure, no driver exists and DRIVER_OK is never written.
C11_DriverOkAfterQueue ==
    /\ InNew =>
          \A i \in DOMAIN log :
             IsDriverOkWrite(log[i]) =>
                \E n, d, e \in 1 .. i - 1 :
                   /\ n < d /\ d < e
                   /\ log[n].reg = "negotiate"
                   /\ IsQueueWrite(log[d], "queue_desc") /\ log[d].val # 0
                   /\ IsQueueWrite(log[e], "queue_enable") /\ log[e].val = 1
    /\ ctor = "bound" => IsDriverOkWrite(log[Len(log)])
    /\ ctor = "err" =>
          /\ \A i \in DOMAIN log : ~IsDriverOkWrite(log[i])
          /\ ~Contains(regs.device_status, DRIVER_OK)
          /\ virtq = NoQueue /\ capacity = 0
          /\ \A c \in CallerIds : thr[c] = IdleThread

C11_Witness ==
    /\ ctor = "bound"
    /\ \E i \in DOMAIN log : IsDriverOkWrite(log[i])
    /\ regs.queue_enable[0] = 1

\* the binding of queue 0 failed inside new
C11_BindingFailed == ctor = "err" /\ HasNegotiated

\* the reads of config.capacity the constructor made, in order
CapacityReads ==
    LET es == SelectSeq(log, LAMBDA e : e.acc = "r" /\ e.reg = "capacity")
    IN  [i \in 1 .. Len(es) |-> es[i].val]

\* new has returned the driver and the log still holds its accesses
NewDone == ctor = "ready" /\ last.op = "new" /\ HasNegotiated

C12_ResizedAfterNew == NewDone /\ dev.capacity # capacity

(***************************************************************************)
(* device_type                                                             *)
(***************************************************************************)
\* the device type the claim names for a device id, "panic" for the others
TypeOfId(id) ==
    CASE id = 4096 -> "Network"
      [] id = 4097 -> "Block"
      [] id = 4098 -> "MemoryBallooning"
      [] id = 4099 -> "Console"
      [] id = 4100 -> "ScsiHost"
      [] id = 4101 -> "EntropySource"
      [] id = 4105 -> "_9P"
      [] OTHER -> "panic"

\* C14: device_type() returns Network, Block, MemoryBallooning, Console,
\* ScsiHost, EntropySource and FileSystem9P (_9P in the code) for the ids
\* 0x1000 .. 0x1005 and 0x1009, and panics for every other id, 0x9999
\* included; it touches no register.
C14_DeviceTypeMapping ==
    last.op = "device_type" =>
       /\ last.type = TypeOfId(last.arg)
       /\ last.type \in KnownDeviceTypes <=> ~panicked
       /\ panicked <=> last.arg \notin {4096, 4097, 4098, 4099, 4100, 4101, 4105}
       /\ regs = last.before /\ log = << >>

C14_Witness == last.op = "device_type" /\ last.arg = 39321 /\ panicked

\* a listed id was mapped
C14_KnownReached == last.op = "device_type" /\ last.arg = 4105 /\ last.type = "_9P"

(***************************************************************************)
(* The two 32-bit feature windows                                          *)
(***************************************************************************)
FeatureRegs ==
    {"device_features_sel", "device_features", "negotiate", "driver_features_sel",
     "driver_features"}

FeatureTrace == SelectSeq(log, LAMBDA e : e.reg \in FeatureRegs)

\* a 64-bit bitmap, a set of bit positions, as its low and its high word
LowWord(v) == { b \in v : b < 32 }
HighWord(v) == { b - 32 : b \in { x \in v : x >= 32 } }
\* low + high * 2^32
Assemble(low, high) == low \cup { b + 32 : b \in high }

\* C15: begin_init writes selector 0 and reads the low word, writes selector
\* 1 and reads the high word, and passes low + high * 2^32, the bitmap the
\* device offers, to negotiate; the accepted bitmap v is written as selector
\* 0, v mod 2^32, selector 1, v div 2^32, and the two words the device then
\* holds assemble to v.
C15_FeatureWindows ==
    HasNegotiated =>
       LET es == FeatureTrace
           v == Negotiate(Negotiator, hw.device_features)
       IN  /\ Len(es) = 9
           /\ <<es[1].acc, es[1].reg, es[1].val>> = <<"w", "device_features_sel", 0>>
           /\ <<es[2].acc, es[2].reg, es[2].val>> =
                 <<"r", "device_features", LowWord(hw.device_features)>>
           /\ <<es[3].acc, es[3].reg, es[3].val>> = <<"w", "device_features_sel", 1>>
           /\ <<es[4].acc, es[4].reg, es[4].val>> =
                 <<"r", "device_features", HighWord(hw.device_features)>>
           /\ es[5].reg = "negotiate"
           /\ es[5].val = Assemble(es[2].val, es[4].val)
           /\ es[5].val = hw.device_features
           /\ <<es[6].acc, es[6].reg, es[6].val>> = <<"w", "driver_features_sel", 0>>
           /\ <<es[7].acc, es[7].reg, es[7].val>> = <<"w", "driver_features", LowWord(v)>>
           /\ <<es[8].acc, es[8].reg, es[8].val>> = <<"w", "driver_features_sel", 1>>
           /\ <<es[9].acc, es[9].reg, es[9].val>> = <<"w", "driver_features", HighWord(v)>>
           /\ Assemble(regs.driver_features[0], regs.driver_features[1]) = v

\* bits 31 and 63 were offered and accepted
C15_Witness ==
    /\ HasNegotiated
    /\ last.op = "begin_init"
    /\ {31, 63} \subseteq hw.device_features
    /\ regs.driver_features[0] = {5, 31}
    /\ regs.driver_features[1] = {31}

(***************************************************************************)
(* queue_used and notify under the queue selector                          *)
(***************************************************************************)
\* one of the three ring address registers of queue q is non-zero under r
Programmed(r, q) ==
    r.queue_desc[q] # 0 \/ r.queue_driver[q] # 0 \/ r.queue_device[q] # 0

\* C16: queue_used(index) first writes index to the queue selector and then
\* returns TRUE exactly when one of the three address registers of that
\* queue is non-zero, whatever queue was selected before; it writes no other
\* register; after queue_set(i, ..) it answers for queue i whether one of
\* the addresses given was non-zero, and FALSE for a queue never programmed.
C16_QueueUsed ==
    /\ last.op = "queue_used" =>
          /\ <<log[1].acc, log[1].reg, log[1].val>> = <<"w", "queue_sel", last.arg>>
          /\ \A i \in DOMAIN log : log[i].acc = "w" => i = 1
          /\ \A i \in DOMAIN log : i > 1 => log[i].acc = "r" /\ log[i].at = last.arg
          /\ last.result = Programmed(last.before, last.arg)
          /\ regs = [last.before EXCEPT !.queue_sel = last.arg]
    /\ last.op = "queue_set" =>
          \A sel \in Queues :
             LET m == Machine([regs EXCEPT !.queue_sel = sel], << >>, FALSE)
             IN  queue_used(m, last.arg).value = (last.rings # <<0, 0, 0>>)
    /\ last.op = "none" =>
          \A sel, q \in Queues :
             ~queue_used(Machine([regs EXCEPT !.queue_sel = sel], << >>, FALSE), q).value

\* queue 1, of which only the device ring address is set, is reported used
\* while queue 0 was selected
C16_Witness ==
    /\ last.op = "queue_used"
    /\ last.arg = 1
    /\ last.before.queue_sel = 0
    /\ last.before.queue_desc[1] = 0
    /\ last.before.queue_device[1] # 0
    /\ last.result = TRUE

\* C17: notify(q) writes to the doorbell of queue q, the address computed
\* from the notify offset of queue q, whatever queue the queue selector
\* holds after earlier queue_used / queue_set calls.
C17_NotifyWritesOwnDoorbell ==
    (last.op = "notify" /\ ~panicked) =>
       /\ Len(log) = 1
       /\ log[1].reg = "doorbell"
       /\ log[1].at = DeviceDoorbell(last.arg)

\* what the code does: the doorbell written is the one of the queue selected
\* when notify is called
C17_NotifyWritesSelectedDoorbell ==
    (last.op = "notify" /\ ~panicked) =>
       /\ Len(log) = 1
       /\ log[1].reg = "doorbell"
       /\ log[1].at = DeviceDoorbell(last.before.queue_sel)

(***************************************************************************)
(* Outstanding requests                                                    *)
(***************************************************************************)
\* the requests submitted to the Queue and not yet retrieved from it
Outstanding == virtq.avail \o virtq.used

\* the request of the running or last call of caller c is still in the Queue
OwnOutstanding(c) ==
    \E i \in DOMAIN Outstanding : Outstanding[i].call = thr[c].call

\* the call of caller c has returned after the Queue accepted its request
ReturnedAfterSubmit(c) == thr[c].pc = "idle" /\ Len(thr[c].steps) > 1

\* no call has started since the call of caller c
LatestCall(c) == \A d \in CallerIds : thr[d].call <= thr[c].call

\* C18: with the callers serialized at most one request is in the Queue at
\* any time; when a call returns after a successful submission the Queue
\* holds no request and all its descriptors are free, the call returns Ok or
\* IoError, and the completion a call retrieves is the one of the request
\* that call submitted.
C18_OneOutstanding ==
    exclusive =>
       /\ Len(Outstanding) <= 1
       /\ \A c \in CallerIds :
             /\ thr[c].pc = "inspect" => thr[c].popped = thr[c].call
             /\ (ReturnedAfterSubmit(c) /\ LatestCall(c)) =>
                   /\ Outstanding = << >>
                   /\ virtq.free = virtq.size
                   /\ thr[c].popped = thr[c].call
                   /\ thr[c].result \in {"Ok", "IoError"}

\* a second call returned, having retrieved its own completion
C18_Witness ==
    \E c \in CallerIds :
        /\ exclusive
        /\ ReturnedAfterSubmit(c)
        /\ thr[c].call > 2
        /\ thr[c].popped = thr[c].call

\* C19: a call returns Ok only when the device wrote the status Ok into the
\* response buffer of its request; a request the device completes without
\* writing the status byte is not reported as success.
C19_OkOnlyIfWritten ==
    \A c \in CallerIds :
        (exclusive /\ Inspected(c) /\ thr[c].result = "Ok") =>
            thr[c].written /\ thr[c].resp = RespOk

\* what the code does: the status byte, written or not, decides alone
C19_StatusByteDecides ==
    \A c \in CallerIds :
        Inspected(c) => (thr[c].result = "Ok" <=> thr[c].resp = RespOk)

\* a completion without a status reached the inspection of the response
C19_SilentCompletion ==
    \E c \in CallerIds :
        Inspected(c) /\ ~thr[c].written /\ thr[c].resp = BlkRespDefault

(***************************************************************************)
(* The polling loop                                                        *)
(***************************************************************************)
\* C13: under a device that completes every request it was notified of, a
\* call that reached the polling loop returns Ok or IoError; and the loop is
\* left only towards pop_used and only with a completion in the Queue: there
\* is no timeout and no cancellation, so without a completion the call stays
\* in the loop.
C13_ReturnsIffCompleted ==
    /\ \A c \in CallerIds :
          (thr[c].pc = "poll") ~> (Inspected(c) /\ thr[c].result \in {"Ok", "IoError"})
    /\ [][\A c \in CallerIds :
             (thr[c].pc = "poll" /\ thr'[c].pc # "poll") =>
                 /\ can_pop(virtq)
                 /\ thr'[c].pc = "pop"]_vars

\* a write_block went through the polling loop and returned Ok
C13_Witness ==
    \E c \in CallerIds :
        /\ thr[c].pc = "idle"
        /\ thr[c].steps = BlockSteps
        /\ thr[c].type = "Out"
        /\ thr[c].result = "Ok"
        /\ thr[c].written

\* a caller polls while the Queue holds no completion
C13_Polling == \E c \in CallerIds : thr[c].pc = "poll" /\ ~can_pop(virtq)

(***************************************************************************)
(* Two callers on one driver                                               *)
(***************************************************************************)
\* caller c left its polling loop on the completion of another call's
\* request, retrieved it, and returned a result while its own request is
\* still in the Queue
Corrupted(c) ==
    /\ ReturnedAfterSubmit(c)
    /\ thr[c].result \in {"Ok", "IoError"}
    /\ thr[c].popped # 0
    /\ thr[c].popped # thr[c].call
    /\ OwnOutstanding(c)

\* C20: when the calls of the two callers are serialized no caller ever
\* returns with another call's completion while its own request is
\* outstanding; without the lock such a state is reachable.
C20_SerializedNotCorrupted ==
    exclusive =>
       \A c \in CallerIds :
          /\ ~Corrupted(c)
          /\ thr[c].pc \in {"inspect", "idle"} => thr[c].popped \in {0, thr[c].call}

\* two interleaved callers, no lock: one returned with the other's
\* completion while its own request is outstanding
C20_Witness ==
    /\ ~exclusive
    /\ callers = CallerIds
    /\ \E c \in CallerIds : Corrupted(c)

====
